---- MODULE Spec2Model ----
(***************************************************************************)
(* Model of uploader.py: scan the recordings directory, keep every regular *)
(* .mp4 file but the newest, rename each one after its creation timestamp, *)
(* upload it to S3 under a date folder, and unlink it after the upload.    *)
(*                                                                         *)
(* Strings (file names, S3 keys, environment values) are sequences of      *)
(* one-character strings, so that suffix tests, rstrip and strftime are    *)
(* computed and not assumed.  Timestamps are integers counted in ticks of  *)
(* 1/TicksPerSec second from the local time 2024-12-31 23:59:59, so that   *)
(* two timestamps can share a second and a second can change the date.     *)
(***************************************************************************)
EXTENDS Integers, Sequences, FiniteSets, TLC

(* ---------------- bounds ---------------- *)
MaxRec == 3        \* recordings the camera creates
MaxTime == 4       \* last tick of the clock
MaxRuns == 2       \* invocations of the script

\* stat() timestamps have a sub-second part that %S drops: ticks in a second
TicksPerSec == 2

\* os.getenv of an unset variable: a value that is no string of characters
None == <<"None">>

(* ---------------- strings ---------------- *)
DigitChars == <<"0", "1", "2", "3", "4", "5", "6", "7", "8", "9">>

RECURSIVE Pad(_, _)
\* zero-padded decimal of n on w characters (%d, %m, %Y, %H, %M, %S)
Pad(n, w) == IF w = 0 THEN <<>> ELSE Append(Pad(n \div 10, w - 1), DigitChars[(n % 10) + 1])

RECURSIVE Rstrip(_)
\* str.rstrip("/")
Rstrip(s) == IF s # <<>> /\ s[Len(s)] = "/" THEN Rstrip(SubSeq(s, 1, Len(s) - 1)) ELSE s

LastDot(s) == LET dots == {i \in 1..Len(s) : s[i] = "."}
              IN IF dots = {} THEN 0 ELSE CHOOSE i \in dots : \A j \in dots : j <= i

\* pathlib.PurePath.suffix: the part from the last dot, unless the name starts
\* or ends with that dot
Suffix(s) == LET i == LastDot(s)
             IN IF 1 < i /\ i < Len(s) THEN SubSeq(s, i, Len(s)) ELSE <<>>

MP4 == <<".", "m", "p", "4">>

(* ---------------- configuration (lines 16-18) ---------------- *)
\* the environments the script is started in: AWS_REGION, S3_BUCKET_NAME and
\* S3_PREFIX, each unset (None), empty or set
Environments ==
    {[region |-> r, bucket |-> <<"b">>, prefix |-> p] :
        r \in {<<"e", "u">>}, p \in {None, <<"/">>, <<"c", "/", "/">>, <<"/", "c">>}}
    \cup {[region |-> None, bucket |-> <<"b">>, prefix |-> <<"c">>],
          [region |-> <<>>, bucket |-> <<"b">>, prefix |-> None],
          [region |-> <<"e", "u">>, bucket |-> None, prefix |-> None],
          [region |-> <<"e", "u">>, bucket |-> <<>>, prefix |-> <<"c">>],
          [region |-> None, bucket |-> None, prefix |-> <<>>]}

\* os.getenv("S3_PREFIX", "").rstrip("/")
S3_PREFIX(raw) == Rstrip(IF raw = None THEN <<>> ELSE raw)

\* a test for None only
Truthy_NotNone(v) == v # None

\* truthiness of an Optional[str]
Truthy(v) == v # None /\ v # <<>>

(* ---------------- time ---------------- *)
\* datetime.fromtimestamp on the modelled range of timestamps
FromTimestamp(t) ==
    LET s == 86399 + (t \div TicksPerSec)
        d == s \div 86400
        r == s % 86400
    IN [year |-> IF d = 0 THEN 2024 ELSE 2025,
        month |-> IF d = 0 THEN 12 ELSE 1,
        day |-> IF d = 0 THEN 31 ELSE d,
        hour |-> r \div 3600,
        minute |-> (r % 3600) \div 60,
        second |-> r % 60,
        tick |-> t % TicksPerSec]

\* birth_dt.strftime("gcam_%d%m%Y_%H%M%S.mp4")
Mp4Name(dt) ==
    <<"g", "c", "a", "m", "_">> \o Pad(dt.day, 2) \o Pad(dt.month, 2) \o Pad(dt.year, 4)
        \o <<"_">> \o Pad(dt.hour, 2) \o Pad(dt.minute, 2) \o Pad(dt.second, 2) \o MP4

\* birth_dt.strftime("%Y-%m-%d")
DateFolder(dt) == Pad(dt.year, 4) \o <<"-">> \o Pad(dt.month, 2) \o <<"-">> \o Pad(dt.day, 2)

\* the key without the test of line 96
S3Key_AlwaysPrefix(pfx, folder, name) == pfx \o <<"/">> \o folder \o <<"/">> \o name

\* the f-strings of lines 96-99
S3Key(pfx, folder, name) ==
    IF pfx # <<>> THEN pfx \o <<"/">> \o folder \o <<"/">> \o name
    ELSE folder \o <<"/">> \o name

(* ---------------- the directory ---------------- *)
\* names the camera gives its recordings
OrigName(k) == <<"v", DigitChars[k + 1]>> \o MP4

\* entries of the directory that are not recordings: another extension, an
\* upper-case extension, a sub-directory whose name ends in .mp4
Others ==
    (<<"n", ".", "t", "x", "t">> :> [kind |-> "file", rec |-> 0, mtime |-> 0, ctime |-> 0, birth |-> 0])
    @@ (<<"V", ".", "M", "P", "4">> :> [kind |-> "file", rec |-> 0, mtime |-> 0, ctime |-> 0, birth |-> 0])
    @@ (<<"d", ".", "m", "p", "4">> :> [kind |-> "dir", rec |-> 0, mtime |-> 0, ctime |-> 0, birth |-> 0])

VARIABLES
    fs,            \* recordings directory: name -> entry
    store,         \* the bucket: key -> recording stored under it
    now,           \* clock, in ticks
    nrec,          \* recordings created so far; recording nrec is the open one
    hasBirthtime,  \* whether os.stat_result has st_birthtime on this platform
    pc,            \* position of the script
    region, bucket, prefix,   \* AWS_REGION, S3_BUCKET, S3_PREFIX
    files, idx,    \* files_to_process and the position of the for loop
    cur,           \* locals of upload_file_to_s3
    exit,          \* how the process ended
    runs,          \* invocations so far
    s3_client,     \* whether boto3.client has been called in this process
    snap,          \* the directory when the process started
    store0,        \* the bucket when the process started
    log,           \* upload calls of this run
    calls,         \* recording -> upload calls over all runs
    oks,           \* recording -> successful upload calls over all runs
    unlinked,      \* recordings removed by unlink()
    returned       \* return values of upload_file_to_s3 in this run

vars == <<fs, store, now, nrec, hasBirthtime, pc, region, bucket, prefix, files, idx,
          cur, exit, runs, s3_client, snap, store0, log, calls, oks, unlinked, returned>>

NoCur == [path |-> <<>>, rec |-> 0, t |-> 0, name |-> <<>>, key |-> <<>>]

\* stat(): the timestamp get_birth_datetime reads
BirthStamp(e) == IF hasBirthtime THEN e.birth ELSE e.ctime

get_birth_datetime(e) == FromTimestamp(BirthStamp(e))

\* os.rename on POSIX: the destination is replaced; renaming a file to itself
\* does nothing; the inode's ctime becomes the time of the rename
Rename(d, src, dst, t) ==
    IF src = dst THEN d
    ELSE [n \in (DOMAIN d \ {src}) \cup {dst} |->
            IF n = dst THEN [d[src] EXCEPT !.ctime = t] ELSE d[n]]

\* an unlink that leaves the file in place
Unlink_Keeps(d, n) == d

\* os.unlink
Unlink(d, n) == [m \in DOMAIN d \ {n} |-> d[m]]

\* the filter without is_file()
IsCandidate_AnyKind(d, n) == Suffix(n) = MP4

\* the filter of lines 54-55
IsCandidate(d, n) == d[n].kind = "file" /\ Suffix(n) = MP4

Candidates(d) == {n \in DOMAIN d : IsCandidate(d, n)}

\* the results sorted() can give: the candidates in non-decreasing st_mtime
\* (iterdir gives no order, so equal mtimes may come in either order)
SortedListings(d) ==
    LET S == Candidates(d)
        n == Cardinality(S)
    IN {f \in [1..n -> S] :
           /\ \A i, j \in 1..n : i # j => f[i] # f[j]
           /\ \A i, j \in 1..n : i < j => d[f[i]].mtime <= d[f[j]].mtime}

\* files[1:]: the oldest is dropped instead of the newest
DropNewest_DropsOldest(sorted) == IF Len(sorted) < 2 THEN <<>> ELSE SubSeq(sorted, 2, Len(sorted))

\* a short listing is returned as it is
DropNewest_KeepsShort(sorted) ==
    IF Len(sorted) < 2 THEN sorted ELSE SubSeq(sorted, 1, Len(sorted) - 1)

\* lines 60-64
DropNewest(sorted) == IF Len(sorted) < 2 THEN <<>> ELSE SubSeq(sorted, 1, Len(sorted) - 1)

get_files_to_upload(d) == {DropNewest(s) : s \in SortedListings(d)}

\* line 116: not all([AWS_REGION, S3_BUCKET])
MissingEnv == ~(Truthy(region) /\ Truthy(bucket))

Recs == 1..MaxRec

Init ==
    /\ fs = Others
    /\ store = <<>>
    /\ now = 0
    /\ nrec = 0
    /\ hasBirthtime \in BOOLEAN
    /\ pc = "idle"
    /\ region = None /\ bucket = None /\ prefix = <<>>
    /\ files = <<>> /\ idx = 0
    /\ cur = NoCur
    /\ exit = "none"
    /\ runs = 0
    /\ s3_client = FALSE
    /\ snap = Others
    /\ store0 = <<>>
    /\ log = <<>>
    /\ calls = [r \in Recs |-> 0]
    /\ oks = [r \in Recs |-> 0]
    /\ unlinked = {}
    /\ returned = <<>>

envVars == <<region, bucket, prefix>>
histVars == <<calls, oks, unlinked>>
worldVars == <<now, nrec, hasBirthtime>>
runVars == <<pc, envVars, files, idx, cur, exit, runs, s3_client, snap, store0, log,
             returned, histVars>>

(* ---------------- the camera and the clock ---------------- *)
\* the camera closes the open recording and starts the next one
NewRecording ==
    /\ pc = "idle" /\ nrec < MaxRec /\ now < MaxTime
    /\ now' = now + 1
    /\ nrec' = nrec + 1
    /\ fs' = (OrigName(nrec') :> [kind |-> "file", rec |-> nrec', mtime |-> now',
                                    ctime |-> now', birth |-> now']) @@ fs
    /\ UNCHANGED <<store, hasBirthtime, runVars>>

\* the camera appends to the open recording
WriteRecording ==
    /\ pc = "idle" /\ nrec > 0 /\ now < MaxTime
    /\ now' = now + 1
    /\ fs' = [fs EXCEPT ![OrigName(nrec)].mtime = now', ![OrigName(nrec)].ctime = now']
    /\ UNCHANGED <<store, nrec, hasBirthtime, runVars>>

\* time passes between two invocations, or while an upload call is running
Tick ==
    /\ pc \in {"idle", "renamed"} /\ now < MaxTime
    /\ now' = now + 1
    /\ UNCHANGED <<fs, store, nrec, hasBirthtime, runVars>>

(* ---------------- the script ---------------- *)
\* module import, lines 16-18: the environment is read once
Import ==
    /\ pc = "idle" /\ runs < MaxRuns
    /\ \E env \in Environments :
          /\ region' = env.region
          /\ bucket' = env.bucket
          /\ prefix' = S3_PREFIX(env.prefix)
    /\ runs' = runs + 1
    /\ snap' = fs
    /\ store0' = store
    /\ pc' = "main"
    /\ UNCHANGED <<fs, store, worldVars, files, idx, cur, exit, s3_client, log, returned,
                   histVars>>

\* main, lines 116-117
MainMissingEnv ==
    /\ pc = "main" /\ MissingEnv
    /\ pc' = "exited" /\ exit' = "RuntimeError"
    /\ UNCHANGED <<fs, store, worldVars, envVars, files, idx, cur, runs, s3_client, snap,
                   store0, log, returned, histVars>>

\* main, lines 119-125: the selection is empty and the script exits with 0
MainNotEnough ==
    /\ pc = "main" /\ ~MissingEnv
    /\ s3_client' = TRUE
    /\ \E sel \in get_files_to_upload(fs) :
          /\ sel = <<>>
          /\ files' = sel
    /\ pc' = "exited" /\ exit' = "0"
    /\ UNCHANGED <<fs, store, worldVars, envVars, idx, cur, runs, snap, store0, log,
                   returned, histVars>>

\* main, lines 119-127: the selection is not empty and the loop starts
MainScan ==
    /\ pc = "main" /\ ~MissingEnv
    /\ s3_client' = TRUE
    /\ \E sel \in get_files_to_upload(fs) :
          /\ sel # <<>>
          /\ files' = sel
    /\ idx' = 1
    /\ pc' = "loop"
    /\ UNCHANGED <<fs, store, worldVars, envVars, cur, exit, runs, snap, store0, log,
                   returned, histVars>>

\* upload_file_to_s3, line 88 on a path that no longer exists: stat() raises
\* FileNotFoundError, which line 109 does not catch
UploadStatFails ==
    /\ pc = "loop" /\ idx <= Len(files)
    /\ files[idx] \notin DOMAIN fs
    /\ pc' = "exited" /\ exit' = "uncaught"
    /\ UNCHANGED <<fs, store, worldVars, envVars, files, idx, cur, runs, s3_client, snap,
                   store0, log, returned, histVars>>

\* the locals of upload_file_to_s3 after lines 88-99, for the entry e at path
Locals(path, e, pfx) ==
    LET birth_dt == get_birth_datetime(e)
        mp4_name == Mp4Name(birth_dt)
        date_folder == DateFolder(birth_dt)
    IN [path |-> path, rec |-> e.rec, t |-> BirthStamp(e), name |-> mp4_name,
        key |-> S3Key(pfx, date_folder, mp4_name)]

\* upload_file_to_s3, lines 88-99
UploadRename ==
    /\ pc = "loop" /\ idx <= Len(files)
    /\ files[idx] \in DOMAIN fs
    /\ cur' = Locals(files[idx], fs[files[idx]], prefix)
    /\ fs' = Rename(fs, files[idx], cur'.name, now)
    /\ pc' = "renamed"
    /\ UNCHANGED <<store, worldVars, envVars, files, idx, exit, runs, s3_client, snap,
                   store0, log, returned, histVars>>

LogEntry(outcome) == [path |-> cur.path, rec |-> cur.rec, name |-> cur.name,
                      key |-> cur.key, t |-> cur.t, outcome |-> outcome]

\* s3_client.upload_file of line 102 returns: the object is stored
UploadOk ==
    /\ pc = "renamed"
    /\ store' = [k \in DOMAIN store \cup {cur.key} |->
                    IF k = cur.key THEN fs[cur.name].rec ELSE store[k]]
    /\ log' = Append(log, LogEntry("ok"))
    /\ calls' = [calls EXCEPT ![cur.rec] = @ + 1]
    /\ oks' = [oks EXCEPT ![cur.rec] = @ + 1]
    /\ pc' = "uploaded"
    /\ UNCHANGED <<fs, worldVars, envVars, files, idx, cur, exit, runs, s3_client, snap,
                   store0, returned, unlinked>>

\* a handler that also removes the local file when the upload has failed
UploadFailsCaught_AndUnlinks ==
    /\ pc = "renamed"
    /\ log' = Append(log, LogEntry("caught"))
    /\ calls' = [calls EXCEPT ![cur.rec] = @ + 1]
    /\ fs' = Unlink(fs, cur.name)
    /\ unlinked' = unlinked \cup {cur.rec}
    /\ returned' = Append(returned, FALSE)
    /\ idx' = idx + 1
    /\ pc' = "loop"
    /\ UNCHANGED <<store, worldVars, envVars, files, cur, exit, runs, s3_client, snap,
                   store0, oks>>

\* line 102 raises BotoCoreError or ClientError: lines 109-111
UploadFailsCaught ==
    /\ pc = "renamed"
    /\ log' = Append(log, LogEntry("caught"))
    /\ calls' = [calls EXCEPT ![cur.rec] = @ + 1]
    /\ returned' = Append(returned, FALSE)
    /\ idx' = idx + 1
    /\ pc' = "loop"
    /\ UNCHANGED <<fs, store, worldVars, envVars, files, cur, exit, runs, s3_client, snap,
                   store0, oks, unlinked>>

\* line 102 raises an exception of another class (upload_file reports a failed
\* transfer as boto3.exceptions.S3UploadFailedError, which is a Boto3Error):
\* the except clause of line 109 does not match and the exception leaves main
UploadFailsUncaught ==
    /\ pc = "renamed"
    /\ log' = Append(log, LogEntry("raised"))
    /\ calls' = [calls EXCEPT ![cur.rec] = @ + 1]
    /\ pc' = "exited" /\ exit' = "uncaught"
    /\ UNCHANGED <<fs, store, worldVars, envVars, files, idx, cur, runs, s3_client, snap,
                   store0, returned, oks, unlinked>>

\* lines 105-107
UploadUnlink ==
    /\ pc = "uploaded"
    /\ unlinked' = unlinked \cup {fs[cur.name].rec}
    /\ fs' = Unlink(fs, cur.name)
    /\ returned' = Append(returned, TRUE)
    /\ idx' = idx + 1
    /\ pc' = "loop"
    /\ UNCHANGED <<store, worldVars, envVars, files, cur, exit, runs, s3_client, snap,
                   store0, log, calls, oks>>

\* the for loop of line 127 is exhausted and main returns
MainReturn ==
    /\ pc = "loop" /\ idx > Len(files)
    /\ pc' = "exited" /\ exit' = "0"
    /\ UNCHANGED <<fs, store, worldVars, envVars, files, idx, cur, runs, s3_client, snap,
                   store0, log, returned, histVars>>

\* lines 133-134: the process is gone; the next invocation is a new interpreter
ProcessEnd ==
    /\ pc = "exited"
    /\ pc' = "idle"
    /\ region' = None /\ bucket' = None /\ prefix' = <<>>
    /\ files' = <<>> /\ idx' = 0
    /\ cur' = NoCur
    /\ exit' = "none"
    /\ s3_client' = FALSE
    /\ snap' = Others
    /\ store0' = <<>>
    /\ log' = <<>>
    /\ returned' = <<>>
    /\ UNCHANGED <<fs, store, worldVars, runs, histVars>>

Next ==
    \/ NewRecording
    \/ WriteRecording
    \/ Tick
    \/ Import
    \/ MainMissingEnv
    \/ MainNotEnough
    \/ MainScan
    \/ UploadStatFails
    \/ UploadRename
    \/ UploadOk
    \/ UploadFailsCaught
    \/ UploadFailsUncaught
    \/ UploadUnlink
    \/ MainReturn
    \/ ProcessEnd

Spec == Init /\ [][Next]_vars

(* ======================= properties ======================= *)
Range(f) == {f[i] : i \in DOMAIN f}

\* recordings whose content is in the directory, in the bucket
LocalRecs(d) == {d[n].rec : n \in DOMAIN d}
StoredRecs(st) == {st[k] : k \in DOMAIN st}

\* a regular file whose name ends in the four characters .mp4 after a stem
IsRegularMp4(d, n) ==
    /\ d[n].kind = "file"
    /\ Len(n) > 4
    /\ SubSeq(n, Len(n) - 3, Len(n)) = <<".", "m", "p", "4">>

\* main has got past line 121 in this process
Scanned == pc \in {"loop", "renamed", "uploaded"} \/ (pc = "exited" /\ exit # "RuntimeError")

\* the candidate of d with the greatest modification time
Newest(d) == CHOOSE n \in Candidates(d) : \A m \in Candidates(d) : d[m].mtime <= d[n].mtime

C2_NewestExcluded ==
    (Scanned /\ Candidates(snap) # {}) =>
        /\ Range(files) = Candidates(snap) \ {Newest(snap)}
        /\ Newest(snap) \in DOMAIN fs /\ fs[Newest(snap)] = snap[Newest(snap)]
        /\ \A i \in 1..Len(log) : log[i].rec # snap[Newest(snap)].rec
                                  /\ log[i].path # Newest(snap) /\ log[i].name # Newest(snap)
        /\ pc \in {"renamed", "uploaded"} => cur.rec # snap[Newest(snap)].rec
        /\ snap[Newest(snap)].rec \notin StoredRecs(store)

C2_Witness ==
    /\ pc = "exited" /\ exit = "0" /\ Len(log) = 2
    /\ Cardinality(Candidates(snap)) = 3
    /\ Newest(snap) \in DOMAIN fs

D2(n) == <<DigitChars[(n \div 10) + 1], DigitChars[(n % 10) + 1]>>
D4(n) == D2(n \div 100) \o D2(n % 100)

\* gcam_<DDMMYYYY>_<HHMMSS>.mp4 and <YYYY-MM-DD> of a timestamp
ExpectedName(t) ==
    LET dt == FromTimestamp(t)
    IN <<"g", "c", "a", "m", "_">> \o D2(dt.day) \o D2(dt.month) \o D4(dt.year) \o <<"_">>
       \o D2(dt.hour) \o D2(dt.minute) \o D2(dt.second) \o <<".", "m", "p", "4">>
ExpectedFolder(t) ==
    LET dt == FromTimestamp(t)
    IN D4(dt.year) \o <<"-">> \o D2(dt.month) \o <<"-">> \o D2(dt.day)

\* the file in hand is in the directory under its timestamp name, and is
\* uploaded under <P>/<date>/<name>, or <date>/<name> when P is empty
C4_NameAndKey ==
    /\ cur.name = ExpectedName(cur.t)
    /\ cur.name \in DOMAIN fs /\ fs[cur.name].rec = cur.rec
    /\ cur.path # cur.name => cur.path \notin DOMAIN fs
    /\ prefix # <<>> => cur.key = prefix \o <<"/">> \o ExpectedFolder(cur.t) \o <<"/">> \o cur.name
    /\ prefix = <<>> => cur.key = ExpectedFolder(cur.t) \o <<"/">> \o cur.name
    /\ pc = "uploaded" => cur.key \in DOMAIN store /\ store[cur.key] = cur.rec

\* C4 as stated: ... and the key never starts with a slash.
C4_Original ==
    pc \in {"renamed", "uploaded"} => C4_NameAndKey /\ cur.key[1] # "/"

\* C4 amended: the file is renamed to gcam_<DDMMYYYY>_<HHMMSS>.mp4 built from T
\* and uploaded under <P>/<YYYY-MM-DD>/<name> (P not empty) or <YYYY-MM-DD>/<name>
\* (P empty), both from the same T; the key starts with a slash only when P does.
C4_KeyFromTimestamp ==
    pc \in {"renamed", "uploaded"} =>
        /\ C4_NameAndKey
        /\ cur.key[1] = "/" <=> (prefix # <<>> /\ prefix[1] = "/")

C4_Witness ==
    /\ pc = "uploaded" /\ prefix = <<>> /\ cur.t \div TicksPerSec = 1
    /\ cur.key \in DOMAIN store

\* C5: a failed upload call makes upload_file_to_s3 return False, with the
\* recording still in the directory; it returns True only after a successful
\* upload call and the removal of the local copy.
C5_FailureCaught ==
    [][/\ (log' # log /\ log'[Len(log')].outcome # "ok") =>
              /\ returned' = Append(returned, FALSE)
              /\ log'[Len(log')].rec \in LocalRecs(fs')
       /\ (returned' # returned /\ returned'[Len(returned')] = TRUE) =>
              /\ log[Len(log)].outcome = "ok"
              /\ log[Len(log)].rec \notin LocalRecs(fs')]_vars

\* C6: when a run of main ends, every selected file has had exactly one upload
\* call, in the order of the selection (ascending modification time), whatever
\* the outcomes of the earlier calls.
C6_OneAttemptEachInOrder ==
    (pc = "exited" /\ exit # "RuntimeError") =>
        /\ Len(log) = Len(files)
        /\ \A i \in 1..Len(log) : log[i].path = files[i] /\ log[i].rec = snap[files[i]].rec
        /\ \A i, j \in 1..Len(files) : i < j => snap[files[i]].mtime <= snap[files[j]].mtime

\* C7: with fewer than two regular .mp4 files the selection is empty and main
\* exits with status 0; nothing is renamed, uploaded or deleted.
C7_NotEnoughFiles ==
    (Scanned /\ Cardinality(Candidates(snap)) < 2) =>
        /\ files = <<>>
        /\ pc = "exited" /\ exit = "0"
        /\ fs = snap /\ store = store0 /\ log = <<>>

C7_Witness ==
    /\ pc = "exited" /\ exit = "0" /\ s3_client
    /\ Cardinality(Candidates(snap)) = 1
    /\ store = <<>>

\* C8: with AWS_REGION or S3_BUCKET_NAME unset or empty, main ends with
\* RuntimeError; no client is created, nothing is scanned, renamed, uploaded or
\* deleted: directory and bucket are as they were.
C8_MissingEnvFails ==
    (pc \notin {"idle", "main"} /\ (region \in {None, <<>>} \/ bucket \in {None, <<>>})) =>
        /\ pc = "exited" /\ exit = "RuntimeError"
        /\ ~s3_client
        /\ files = <<>> /\ log = <<>>
        /\ fs = snap /\ store = store0

C8_Witness ==
    /\ pc = "exited" /\ exit = "RuntimeError"
    /\ region = <<"e", "u">> /\ bucket = <<>>
    /\ Cardinality(Candidates(fs)) = 3 /\ snap = fs

\* C9: when a run of main ends, the content of every selected file is in the
\* bucket or still in the directory.
C9_NoRecordingLost ==
    pc = "exited" =>
        \A i \in 1..Len(files) :
            snap[files[i]].rec \in LocalRecs(fs) \cup StoredRecs(store)

\* C10: entries that are not regular files with the suffix .mp4 are left as
\* they were: never selected, renamed, uploaded or deleted.
C10_OthersUntouched ==
    pc # "idle" =>
        \A n \in DOMAIN snap :
            ~IsRegularMp4(snap, n) =>
                /\ n \in DOMAIN fs /\ fs[n] = snap[n]
                /\ n \notin Range(files)
                /\ \A i \in 1..Len(log) : log[i].path # n /\ log[i].name # n

C10_Witness ==
    /\ pc = "exited" /\ exit = "0" /\ Len(log) = 2
    /\ log[1].outcome = "ok" /\ log[2].outcome = "caught"
    /\ \A n \in DOMAIN Others : n \in DOMAIN fs
====
